---- MODULE Spec2Model ----
(***************************************************************************)
(* Model of the rebound trading bot (trading-bot.go, structs.go).          *)
(*                                                                         *)
(* Units.  USDT amounts (budget, investment unit) are whole USDT.  Percent *)
(* changes are tenths of a percent (-5.0% is -50).  Prices and quantities  *)
(* are fixed-point integers.  Subtracting the integral investment unit     *)
(* from a float64 budget that is at least as large is exact, so integer    *)
(* arithmetic is faithful for the budget.                                  *)
(*                                                                         *)
(* Decimal strings of the exchange's JSON are records [kind, val]: a       *)
(* well-formed number, the empty string, or text that is not a number.     *)
(***************************************************************************)
EXTENDS Integers, Sequences, FiniteSets, TLC

VARIABLES
    TotalBudget,        \* bot.TotalBudget
    AvailableBudget,    \* bot.AvailableBudget
    InvestmentAmount,   \* bot.InvestmentAmount
    Positions,          \* bot.Positions
    WatchList,          \* bot.WatchList
    NextPositionID,     \* bot.NextPositionID
    pc,                 \* position of the single goroutine
    idx,                \* index of the range loop over bot.WatchList
    cycles,             \* runTradingCycle invocations so far
    position,           \* executeBuy local: position
    roundedSellPrice,   \* executeBuy local: roundedSellPrice
    retry,              \* executeBuy local: retry
    sellErr,            \* executeBuy local: sellErr # nil
    signals,            \* lines printed by the classifier for the latest entry
    log,                \* external steps made for the latest entry, in order
    entry,              \* the latest entry, with the bot's books when its turn began
    exch,               \* the exchange: market buys executed, responses lost
    cycleErr,           \* the last runTradingCycle returned an error
    fetchFailed,        \* the latest failed fetch, with the bot's books at that moment
    calls,              \* indices of bot.WatchList handed to executeBuy in this cycle
    norm                \* a run of roundToTickSize on its own

vars == <<TotalBudget, AvailableBudget, InvestmentAmount, Positions, WatchList,
          NextPositionID, pc, idx, cycles, position, roundedSellPrice, retry,
          sellErr, signals, log, entry, exch, cycleErr, fetchFailed, calls, norm>>

botVars == <<TotalBudget, AvailableBudget, InvestmentAmount, Positions,
             WatchList, NextPositionID>>

localVars == <<position, roundedSellPrice, retry, sellErr>>

ghostVars == <<fetchFailed, calls, norm>>

----------------------------------------------------------------------------
(* Bounds of the model *)

MaxCoins == 2       \* longest list the data source returns
MaxCycles == 2      \* runTradingCycle invocations explored
MaxLost == 1        \* executed orders whose response never arrives
MaxBudget == 15     \* largest starting balance
PctMargin == 15     \* SpecEntry: percent changes this far beyond the outer zone edges
MaxPrice == 60      \* SpecNormalizer: largest price given to roundToTickSize
MaxListed == 22     \* SpecFetch: longest list the data source returns

(* Program constants *)

InvestmentUnit == 7     \* InvestmentAmount: 7.0
MinBalance == 7         \* realBalance < 7.0 is fatal
\* one pass more than maxRetries
maxRetriesPlusOne == 3 + 1

maxRetries == 3
Top20Limit == 20        \* addedCount >= 20
SkipLimit == -110       \* -11.0
RiskyLimit == -100      \* -10.0
BuyLimit == -50         \* -5.0
WatchLimit == -45       \* -4.5
ProfitNum == 105        \* avgPrice * 1.05
ProfitDen == 100

----------------------------------------------------------------------------
(* Decimal strings and strconv.ParseFloat *)

Num(n) == [kind |-> "num", val |-> n]
EmptyStr == [kind |-> "empty", val |-> 0]
BadStr == [kind |-> "bad", val |-> 0]

\* a tick size string that is a number above zero
PositiveTick(t) == t.kind = "num" /\ t.val > 0

\* strconv.ParseFloat: the value, or 0 and an error on a syntax error
ParseFloat(s) ==
    IF s.kind = "num" THEN [v |-> s.val, err |-> FALSE]
                      ELSE [v |-> 0, err |-> TRUE]

\* int64(x) of a quotient num/den with den > 0: truncation toward zero
TruncDiv(num, den) ==
    IF num >= 0 THEN num \div den ELSE -((-num) \div den)

\* MulTickRound that takes a price half-way between two multiples down
MulTickRoundHalfDown(price, tick) == TruncDiv(2 * price + tick - 1, 2 * tick) * tick

\* MulTickRound that goes to the multiple above the price
MulTickRoundUp(price, tick) == (TruncDiv(price, tick) + 1) * tick

MulTickRound(price, tick) == TruncDiv(2 * price + tick, 2 * tick) * tick

\* roundToTickSize that gives no price without a usable tick size
roundToTickSizeStrict(price, tickSize) ==
    LET p == ParseFloat(tickSize)
    IN  IF p.err \/ p.v <= 0 THEN 0 ELSE MulTickRound(price, p.v)

\* roundToTickSize: float64(int64(price/tick + 0.5)) * tick
roundToTickSize(price, tickSize) ==
    LET p == ParseFloat(tickSize)
    IN  IF p.err \/ p.v <= 0 THEN price ELSE MulTickRound(price, p.v)

----------------------------------------------------------------------------
(* Inputs *)

\* percent changes the data source reports in Spec: at the edge where the buy
\* range ends, and at the edge where it begins
PctValues == {-100, -50}

Budgets == {MinBalance, 12, MaxBudget}

RankedSymbols == <<"BTC", "ETH", "USDT", "SOL">>
RankedPrice == <<1000, 2000, 100, 400>>

\* CoinMarketCapResponse.Data: ranked assets with price and 24h change
CMCData(f) ==
    [k \in DOMAIN f |-> [Symbol |-> RankedSymbols[k],
                         Price |-> RankedPrice[k],
                         PercentChange24h |-> f[k]]]

CMCResponses ==
    {CMCData(f) : f \in UNION {[1..n -> PctValues] : n \in 0..MaxCoins}}

Fill(p, q) == [Price |-> Num(p), Qty |-> Num(q)]

\* OrderResponse of a market buy: ExecutedQty and Fills
BuyResponses ==
    { [ExecutedQty |-> Num(3), Fills |-> <<Fill(1000, 2), Fill(1060, 1)>>],
      [ExecutedQty |-> Num(7), Fills |-> <<>>],
      [ExecutedQty |-> BadStr, Fills |-> <<Fill(980, 7)>>] }

\* SymbolFilters.TickSize
TickSizes == {Num(20), Num(0), EmptyStr, BadStr}

\* how an order POST ends: [err: an error is returned, executed: the
\* exchange executed the order]
PostOutcomes ==
    { [kind |-> "ok", err |-> FALSE, executed |-> TRUE],
      [kind |-> "transport", err |-> TRUE, executed |-> FALSE],
      [kind |-> "status", err |-> TRUE, executed |-> FALSE],
      [kind |-> "unreadable", err |-> TRUE, executed |-> TRUE] }

\* OrderResponse.OrderID the exchange gives a limit sell on the asset of rank k
SellOrderID(k) == 900 + k

NoPosition ==
    [ID |-> 0, Symbol |-> "", BuyPrice |-> 0, Quantity |-> 0, InvestedAmount |-> 0,
     TargetSellPrice |-> 0, DropPercentage |-> 0, CurrentValue |-> 0,
     SellOrderID |-> 0, HasActiveSellOrder |-> FALSE]
NoEntry ==
    [idx |-> 0, invoked |-> FALSE, Positions |-> <<>>, AvailableBudget |-> 0,
     NextPositionID |-> 0]
NoFailure ==
    [cycle |-> 0, WatchList |-> <<>>, Positions |-> <<>>, AvailableBudget |-> 0,
     NextPositionID |-> 0, buys |-> 0]
NoNorm == [price |-> 0, tickSize |-> EmptyStr, applied |-> 0, once |-> 0, twice |-> 0]

----------------------------------------------------------------------------
(* fetchTop20CoinsFromCMC: the first 20 assets of the response, in order *)

Min(a, b) == IF a <= b THEN a ELSE b

FetchTop20(data) ==
    [k \in 1..Min(Len(data), Top20Limit) |->
        [Symbol |-> data[k].Symbol \o "USDT",
         LastPrice |-> data[k].Price,
         PriceChangePercent |-> data[k].PercentChange24h]]

----------------------------------------------------------------------------
(* analyzeTradingOpportunities: the lines printed for one percent change *)

WatchSignal(x) ==
    IF x <= WatchLimit /\ x > BuyLimit THEN {"WATCH"} ELSE {}

\* ZoneSignal that holds only above the watch range
ZoneSignalAboveWatch(x) ==
    IF x <= BuyLimit /\ x > RiskyLimit THEN {"BUY"}
    ELSE IF x > WatchLimit THEN {"HOLD"}
    ELSE IF x <= RiskyLimit /\ x > SkipLimit THEN {"RISKY"}
    ELSE {}

\* ZoneSignal with -10.0 taken into the buy range
ZoneSignalInclusive(x) ==
    IF x <= BuyLimit /\ x >= RiskyLimit THEN {"BUY"}
    ELSE IF x > BuyLimit THEN {"HOLD"}
    ELSE IF x < RiskyLimit /\ x > SkipLimit THEN {"RISKY"}
    ELSE {}

ZoneSignal(x) ==
    IF x <= BuyLimit /\ x > RiskyLimit THEN {"BUY"}
    ELSE IF x > BuyLimit THEN {"HOLD"}
    ELSE IF x <= RiskyLimit /\ x > SkipLimit THEN {"RISKY"}
    ELSE {}

Signals(x) ==
    IF x <= SkipLimit THEN {"SKIP"} ELSE WatchSignal(x) \cup ZoneSignal(x)

\* BuyCondition with -10.0 taken into the buy range
BuyConditionInclusive(x) == x > SkipLimit /\ x <= BuyLimit /\ x >= RiskyLimit

\* BuyCondition that already buys in the watch range
BuyConditionEarly(x) == x > SkipLimit /\ x <= WatchLimit /\ x > RiskyLimit

\* the branch that calls bot.executeBuy
BuyCondition(x) == x > SkipLimit /\ x <= BuyLimit /\ x > RiskyLimit

----------------------------------------------------------------------------
(* executeBuy: the position built from the market buy's response *)

RECURSIVE TotalValue(_)
TotalValue(fills) ==
    IF fills = <<>> THEN 0
    ELSE ParseFloat(Head(fills).Price).v * ParseFloat(Head(fills).Qty).v
         + TotalValue(Tail(fills))

RECURSIVE TotalQty(_)
TotalQty(fills) ==
    IF fills = <<>> THEN 0
    ELSE ParseFloat(Head(fills).Qty).v + TotalQty(Tail(fills))

\* FillPrice as the plain mean of the fill prices
FillPriceUnweighted(fills) ==
    IF Len(fills) > 0 /\ TotalQty(fills) > 0
    THEN LET RECURSIVE PriceSum(_)
             PriceSum(fs) == IF fs = <<>> THEN 0
                             ELSE ParseFloat(Head(fs).Price).v + PriceSum(Tail(fs))
         IN  PriceSum(fills) \div Len(fills)
    ELSE 0

FillPrice(fills) ==
    IF Len(fills) > 0 /\ TotalQty(fills) > 0
    THEN TotalValue(fills) \div TotalQty(fills)
    ELSE 0

AvgPrice(resp, coin) ==
    IF FillPrice(resp.Fills) = 0 THEN coin.LastPrice ELSE FillPrice(resp.Fills)

TargetPrice(avgPrice) == (avgPrice * ProfitNum) \div ProfitDen

NewPosition(id, coin, resp, invest) ==
    [ID |-> id,
     Symbol |-> coin.Symbol,
     BuyPrice |-> AvgPrice(resp, coin),
     Quantity |-> ParseFloat(resp.ExecutedQty).v,
     InvestedAmount |-> invest,
     TargetSellPrice |-> TargetPrice(AvgPrice(resp, coin)),
     DropPercentage |-> coin.PriceChangePercent,
     CurrentValue |-> AvgPrice(resp, coin) * ParseFloat(resp.ExecutedQty).v,
     SellOrderID |-> 0,
     HasActiveSellOrder |-> FALSE]

\* an executed order whose response the bot does not get
Lost(o) == o.executed /\ o.err

\* the exchange after a POST with outcome o
Exchange(ex, side, o) ==
    [buys |-> IF side = "BUY" /\ o.executed THEN ex.buys + 1 ELSE ex.buys,
     lost |-> IF Lost(o) THEN ex.lost + 1 ELSE ex.lost]

NoResponse == [ExecutedQty |-> EmptyStr, Fills |-> <<>>]

\* the log: call made, error returned, order executed by the exchange, order
\* id returned, for a rule lookup whether its tick size is a positive number,
\* and for a market buy the response it returned
Event(call, o) ==
    [call |-> call, err |-> o.err, executed |-> o.executed, orderId |-> 0,
     tickOk |-> FALSE, resp |-> NoResponse]
Pause(call) ==
    [call |-> call, err |-> FALSE, executed |-> FALSE, orderId |-> 0,
     tickOk |-> FALSE, resp |-> NoResponse]
Lookup(failed) ==
    [call |-> "getSymbolFilters", err |-> failed, executed |-> FALSE, orderId |-> 0,
     tickOk |-> FALSE, resp |-> NoResponse]

----------------------------------------------------------------------------
(* State machine *)

Init ==
    /\ TotalBudget \in Budgets
    /\ AvailableBudget = TotalBudget
    /\ InvestmentAmount = InvestmentUnit
    /\ Positions = <<>>
    /\ WatchList = <<>>
    /\ NextPositionID = 1
    /\ pc = "idle"
    /\ idx = 0
    /\ cycles = 0
    /\ position = NoPosition
    /\ roundedSellPrice = 0
    /\ retry = 0
    /\ sellErr = FALSE
    /\ signals = {}
    /\ log = <<>>
    /\ entry = NoEntry
    /\ exch = [buys |-> 0, lost |-> 0]
    /\ cycleErr = FALSE
    /\ fetchFailed = NoFailure
    /\ calls = <<>>
    /\ norm = NoNorm

\* executeBuy returns to the loop over bot.WatchList, which moves on
Return ==
    /\ idx' = idx + 1
    /\ pc' = "analyze"

\* the locals of the previous call of executeBuy are gone
FreshLocals ==
    /\ position' = NoPosition
    /\ roundedSellPrice' = 0
    /\ retry' = 0
    /\ sellErr' = FALSE

\* the failure of runTradingCycle number cycle, with the bot's books of that moment
Failure(cycle) ==
    [cycle |-> cycle, WatchList |-> WatchList, Positions |-> Positions,
     AvailableBudget |-> AvailableBudget, NextPositionID |-> NextPositionID,
     buys |-> exch.buys]

\* FetchError that has already put the empty result into bot.WatchList
FetchErrorClearsWatchList ==
    /\ pc = "idle"
    /\ cycles < MaxCycles
    /\ cycles' = cycles + 1
    /\ cycleErr' = TRUE
    /\ fetchFailed' = Failure(cycles + 1)
    /\ WatchList' = <<>>
    /\ UNCHANGED <<TotalBudget, AvailableBudget, InvestmentAmount, Positions,
                   NextPositionID, pc, idx, localVars, signals, log, entry, exch,
                   calls, norm>>

\* runTradingCycle, fetchTop20CoinsFromCMC fails
FetchError ==
    /\ pc = "idle"
    /\ cycles < MaxCycles
    /\ cycles' = cycles + 1
    /\ cycleErr' = TRUE
    /\ fetchFailed' = Failure(cycles + 1)
    /\ UNCHANGED <<botVars, pc, idx, localVars, signals, log, entry, exch, calls, norm>>

\* runTradingCycle, the snapshot replaces bot.WatchList
FetchOk ==
    /\ pc = "idle"
    /\ cycles < MaxCycles
    /\ cycles' = cycles + 1
    /\ \E data \in CMCResponses : WatchList' = FetchTop20(data)
    /\ cycleErr' = FALSE
    /\ pc' = "analyze"
    /\ idx' = 1
    /\ UNCHANGED <<TotalBudget, AvailableBudget, InvestmentAmount, Positions,
                   NextPositionID, localVars, signals, log, entry, exch, ghostVars>>

\* entry i as the loop body takes it up, with the books of that moment
Entry(i, invoked) ==
    [idx |-> i, invoked |-> invoked, Positions |-> Positions,
     AvailableBudget |-> AvailableBudget, NextPositionID |-> NextPositionID]

\* one iteration of the loop over bot.WatchList that does not reach executeBuy
AnalyzeOnly ==
    /\ pc = "analyze"
    /\ idx <= Len(WatchList)
    /\ ~BuyCondition(WatchList[idx].PriceChangePercent)
    /\ signals' = Signals(WatchList[idx].PriceChangePercent)
    /\ entry' = Entry(idx, FALSE)
    /\ log' = <<>>
    /\ FreshLocals
    /\ idx' = idx + 1
    /\ fetchFailed' = NoFailure
    /\ UNCHANGED <<cycles, botVars, pc, exch, cycleErr, calls, norm>>

\* AnalyzeBuy that calls executeBuy for the first buy signal of a cycle only
AnalyzeBuyFirstOnly ==
    /\ pc = "analyze"
    /\ idx <= Len(WatchList)
    /\ BuyCondition(WatchList[idx].PriceChangePercent)
    /\ signals' = Signals(WatchList[idx].PriceChangePercent)
    /\ log' = <<>>
    /\ FreshLocals
    /\ fetchFailed' = NoFailure
    /\ IF calls = <<>>
       THEN /\ entry' = Entry(idx, TRUE)
            /\ calls' = Append(calls, idx)
            /\ pc' = "executeBuy"
            /\ idx' = idx
       ELSE /\ entry' = Entry(idx, FALSE)
            /\ calls' = calls
            /\ pc' = pc
            /\ idx' = idx + 1
    /\ UNCHANGED <<cycles, botVars, exch, cycleErr, norm>>

\* one iteration of the loop over bot.WatchList, up to the call of executeBuy
AnalyzeBuy ==
    /\ pc = "analyze"
    /\ idx <= Len(WatchList)
    /\ BuyCondition(WatchList[idx].PriceChangePercent)
    /\ signals' = Signals(WatchList[idx].PriceChangePercent)
    /\ entry' = Entry(idx, TRUE)
    /\ log' = <<>>
    /\ FreshLocals
    /\ calls' = Append(calls, idx)
    /\ fetchFailed' = NoFailure
    /\ pc' = "executeBuy"
    /\ UNCHANGED <<cycles, botVars, idx, exch, cycleErr, norm>>

\* CycleDone that gives the budget back at the end of the cycle
CycleDoneRefunds ==
    /\ pc = "analyze"
    /\ idx > Len(WatchList)
    /\ pc' = "idle"
    /\ idx' = 0
    /\ signals' = {}
    /\ log' = <<>>
    /\ entry' = NoEntry
    /\ FreshLocals
    /\ fetchFailed' = NoFailure
    /\ calls' = <<>>
    /\ AvailableBudget' = TotalBudget
    /\ UNCHANGED <<cycles, TotalBudget, InvestmentAmount, Positions, WatchList,
                   NextPositionID, exch, cycleErr, norm>>

\* CycleDone that starts the loop over bot.WatchList again
CycleDoneRestarts ==
    /\ pc = "analyze"
    /\ idx > Len(WatchList)
    /\ pc' = "analyze"
    /\ idx' = 1
    /\ signals' = {}
    /\ log' = <<>>
    /\ entry' = NoEntry
    /\ FreshLocals
    /\ fetchFailed' = NoFailure
    /\ calls' = <<>>
    /\ UNCHANGED <<cycles, botVars, exch, cycleErr, norm>>

\* the loop is over, runTradingCycle returns nil
CycleDone ==
    /\ pc = "analyze"
    /\ idx > Len(WatchList)
    /\ pc' = "idle"
    /\ idx' = 0
    /\ signals' = {}
    /\ log' = <<>>
    /\ entry' = NoEntry
    /\ FreshLocals
    /\ fetchFailed' = NoFailure
    /\ calls' = <<>>
    /\ UNCHANGED <<cycles, botVars, exch, cycleErr, norm>>

\* the budget guard with <= for <
InsufficientBudgetOrEqual == AvailableBudget <= InvestmentAmount

\* executeBuy, the budget guard
InsufficientBudget == AvailableBudget < InvestmentAmount

\* executeBuy, the budget guard returns
InsufficientFunds ==
    /\ pc = "executeBuy"
    /\ InsufficientBudget
    /\ Return
    /\ UNCHANGED <<cycles, botVars, localVars, signals, log, entry, exch, cycleErr, ghostVars>>

\* BuyOrderError that has already charged the budget
BuyOrderErrorCharged ==
    /\ pc = "executeBuy"
    /\ ~InsufficientBudget
    /\ \E o \in PostOutcomes :
        /\ o.err
        /\ Lost(o) => exch.lost < MaxLost
        /\ log' = Append(log, Event("marketBuy", o))
        /\ exch' = Exchange(exch, "BUY", o)
    /\ AvailableBudget' = AvailableBudget - InvestmentAmount
    /\ Return
    /\ UNCHANGED <<cycles, TotalBudget, InvestmentAmount, Positions, WatchList,
                   NextPositionID, localVars, signals, entry, cycleErr, ghostVars>>

\* executeBuy, bot.executeBuyOrder returns an error
BuyOrderError ==
    /\ pc = "executeBuy"
    /\ ~InsufficientBudget
    /\ \E o \in PostOutcomes :
        /\ o.err
        /\ Lost(o) => exch.lost < MaxLost
        /\ log' = Append(log, Event("marketBuy", o))
        /\ exch' = Exchange(exch, "BUY", o)
    /\ Return
    /\ UNCHANGED <<cycles, botVars, localVars, signals, entry, cycleErr, ghostVars>>

\* BuyOrderOk that goes to the rule lookup without the settlement delay
BuyOrderOkNoDelay ==
    /\ pc = "executeBuy"
    /\ ~InsufficientBudget
    /\ \E o \in PostOutcomes : \E resp \in BuyResponses :
        /\ ~o.err
        /\ log' = Append(log, [Event("marketBuy", o) EXCEPT !.resp = resp])
        /\ exch' = Exchange(exch, "BUY", o)
        /\ position' = NewPosition(NextPositionID, WatchList[idx], resp, InvestmentAmount)
    /\ pc' = "filters"
    /\ UNCHANGED <<cycles, botVars, idx, roundedSellPrice, retry, sellErr,
                   signals, entry, cycleErr, ghostVars>>

\* executeBuy, bot.executeBuyOrder returns a response; the position is built
BuyOrderOk ==
    /\ pc = "executeBuy"
    /\ ~InsufficientBudget
    /\ \E o \in PostOutcomes : \E resp \in BuyResponses :
        /\ ~o.err
        /\ log' = Append(log, [Event("marketBuy", o) EXCEPT !.resp = resp])
        /\ exch' = Exchange(exch, "BUY", o)
        /\ position' = NewPosition(NextPositionID, WatchList[idx], resp, InvestmentAmount)
    /\ pc' = "settle"
    /\ UNCHANGED <<cycles, botVars, idx, roundedSellPrice, retry, sellErr,
                   signals, entry, cycleErr, ghostVars>>

\* Settle during which a second executeBuy books its position
SettleOverlapped ==
    /\ pc = "settle"
    /\ log' = Append(log, Pause("settle"))
    /\ Positions' = Append(Positions, position)
    /\ AvailableBudget' = AvailableBudget - InvestmentAmount
    /\ NextPositionID' = NextPositionID + 1
    /\ pc' = "filters"
    /\ UNCHANGED <<cycles, TotalBudget, InvestmentAmount, WatchList, idx, localVars,
                   signals, entry, exch, cycleErr, ghostVars>>

\* executeBuy, time.Sleep(3 * time.Second)
Settle ==
    /\ pc = "settle"
    /\ log' = Append(log, Pause("settle"))
    /\ pc' = "filters"
    /\ UNCHANGED <<cycles, botVars, idx, localVars, signals, entry, exch, cycleErr, ghostVars>>

\* Commit without the budget decrement
CommitKeepsBudget(pos) ==
    /\ Positions' = Append(Positions, pos)
    /\ NextPositionID' = NextPositionID + 1
    /\ UNCHANGED <<TotalBudget, AvailableBudget, InvestmentAmount, WatchList>>

\* Commit without the id increment
CommitKeepsID(pos) ==
    /\ Positions' = Append(Positions, pos)
    /\ AvailableBudget' = AvailableBudget - InvestmentAmount
    /\ UNCHANGED <<TotalBudget, InvestmentAmount, WatchList, NextPositionID>>

\* Commit that stops after the append
CommitAppendOnly(pos) ==
    /\ Positions' = Append(Positions, pos)
    /\ UNCHANGED <<TotalBudget, AvailableBudget, InvestmentAmount, WatchList,
                   NextPositionID>>

\* executeBuy, the three assignments that book the position pos
Commit(pos) ==
    /\ Positions' = Append(Positions, pos)
    /\ AvailableBudget' = AvailableBudget - InvestmentAmount
    /\ NextPositionID' = NextPositionID + 1
    /\ UNCHANGED <<TotalBudget, InvestmentAmount, WatchList>>

\* FiltersError that goes on to place the sell at the price as it is
FiltersErrorStillSells ==
    /\ pc = "filters"
    /\ log' = Append(log, Lookup(TRUE))
    /\ roundedSellPrice' = position.TargetSellPrice
    /\ retry' = 1
    /\ pc' = "sell"
    /\ UNCHANGED <<cycles, botVars, idx, position, sellErr, signals, entry, exch,
                   cycleErr, ghostVars>>

\* executeBuy, bot.getSymbolFilters returns an error; the position is booked
FiltersError ==
    /\ pc = "filters"
    /\ log' = Append(log, Lookup(TRUE))
    /\ Commit(position)
    /\ Return
    /\ UNCHANGED <<cycles, localVars, signals, entry, exch, cycleErr, ghostVars>>

\* executeBuy, bot.getSymbolFilters returns the rules; the price is rounded
FiltersOk ==
    /\ pc = "filters"
    /\ \E tickSize \in TickSizes :
        /\ log' = Append(log, [Lookup(FALSE) EXCEPT !.tickOk = PositiveTick(tickSize)])
        /\ roundedSellPrice' = roundToTickSize(position.TargetSellPrice, tickSize)
    /\ retry' = 1
    /\ pc' = "sell"
    /\ UNCHANGED <<cycles, botVars, idx, position, sellErr, signals, entry, exch,
                   cycleErr, ghostVars>>

\* WithSellOrder that leaves the target price as it was computed
WithSellOrderKeepsTarget(pos, id, price) ==
    [pos EXCEPT !.SellOrderID = id,
                !.HasActiveSellOrder = TRUE]

\* the position once its sell order is accepted with order id id
WithSellOrder(pos, id, price) ==
    [pos EXCEPT !.SellOrderID = id,
                !.HasActiveSellOrder = TRUE,
                !.TargetSellPrice = price]

\* executeBuy, a pass of the retry loop that ends with break; the position
\* gets its sell order and is booked
LimitSellOk ==
    /\ pc = "sell"
    /\ retry <= maxRetries
    /\ \E o \in PostOutcomes :
        /\ ~o.err
        /\ exch' = Exchange(exch, "SELL", o)
        /\ log' = Append(log, [Event("limitSell", o) EXCEPT !.orderId = SellOrderID(idx)])
        /\ position' = WithSellOrder(position, SellOrderID(idx), roundedSellPrice)
    /\ Commit(position')
    /\ sellErr' = FALSE
    /\ Return
    /\ UNCHANGED <<cycles, roundedSellPrice, retry, signals, entry, cycleErr, ghostVars>>

\* executeBuy, a pass of the retry loop whose order fails, with another to come
LimitSellRetry ==
    /\ pc = "sell"
    /\ retry <= maxRetries
    /\ retry < maxRetries
    /\ \E o \in PostOutcomes :
        /\ o.err
        /\ Lost(o) => exch.lost < MaxLost
        /\ log' = log \o <<Event("limitSell", o), Pause("wait")>>
        /\ exch' = Exchange(exch, "SELL", o)
    /\ sellErr' = TRUE
    /\ retry' = retry + 1
    /\ UNCHANGED <<cycles, botVars, pc, idx, position, roundedSellPrice, signals,
                   entry, cycleErr, ghostVars>>

\* LimitSellGiveUp that fails the buy: no position is booked
LimitSellGiveUpAborts ==
    /\ pc = "sell"
    /\ retry <= maxRetries
    /\ ~(retry < maxRetries)
    /\ \E o \in PostOutcomes :
        /\ o.err
        /\ Lost(o) => exch.lost < MaxLost
        /\ log' = Append(log, Event("limitSell", o))
        /\ exch' = Exchange(exch, "SELL", o)
    /\ sellErr' = TRUE
    /\ retry' = retry + 1
    /\ Return
    /\ UNCHANGED <<cycles, botVars, position, roundedSellPrice, signals, entry,
                   cycleErr, ghostVars>>

\* executeBuy, the last pass of the retry loop fails; the position is booked
\* without a sell order
LimitSellGiveUp ==
    /\ pc = "sell"
    /\ retry <= maxRetries
    /\ ~(retry < maxRetries)
    /\ \E o \in PostOutcomes :
        /\ o.err
        /\ Lost(o) => exch.lost < MaxLost
        /\ log' = Append(log, Event("limitSell", o))
        /\ exch' = Exchange(exch, "SELL", o)
    /\ sellErr' = TRUE
    /\ retry' = retry + 1
    /\ Commit(position)
    /\ Return
    /\ UNCHANGED <<cycles, position, roundedSellPrice, signals, entry, cycleErr, ghostVars>>

Next ==
    \/ FetchError
    \/ FetchOk
    \/ AnalyzeOnly
    \/ AnalyzeBuy
    \/ CycleDone
    \/ InsufficientFunds
    \/ BuyOrderError
    \/ BuyOrderOk
    \/ Settle
    \/ FiltersError
    \/ FiltersOk
    \/ LimitSellOk
    \/ LimitSellRetry
    \/ LimitSellGiveUp

Spec == Init /\ [][Next]_vars

----------------------------------------------------------------------------
(* One cycle over a snapshot of a single entry, for every percent change    *)
(* around the zone edges.  It starts where FetchOk has just installed the   *)
(* snapshot: in the first cycle of a fresh bot, or in the second cycle of a *)
(* bot that spent its whole balance on one position in the first.           *)

EntryPcts == (SkipLimit - PctMargin)..(WatchLimit + PctMargin)

FirstTicker == FetchTop20(CMCData(<<BuyLimit>>))[1]

InitEntry ==
    /\ \E x \in EntryPcts : WatchList = FetchTop20(CMCData(<<x>>))
    /\ InvestmentAmount = InvestmentUnit
    /\ \/ /\ TotalBudget \in Budgets
          /\ AvailableBudget = TotalBudget
          /\ Positions = <<>>
          /\ NextPositionID = 1
          /\ cycles = 1
          /\ exch = [buys |-> 0, lost |-> 0]
       \/ /\ TotalBudget = MinBalance
          /\ AvailableBudget = TotalBudget - InvestmentUnit
          /\ \E resp \in BuyResponses :
                Positions = <<NewPosition(1, FirstTicker, resp, InvestmentUnit)>>
          /\ NextPositionID = 2
          /\ cycles = 2
          /\ exch = [buys |-> 1, lost |-> 0]
    /\ pc = "analyze"
    /\ idx = 1
    /\ position = NoPosition
    /\ roundedSellPrice = 0
    /\ retry = 0
    /\ sellErr = FALSE
    /\ signals = {}
    /\ log = <<>>
    /\ entry = NoEntry
    /\ cycleErr = FALSE
    /\ fetchFailed = NoFailure
    /\ calls = <<>>
    /\ norm = NoNorm

NextOneEntry ==
    \/ AnalyzeOnly
    \/ AnalyzeBuy
    \/ CycleDone
    \/ InsufficientFunds
    \/ BuyOrderError
    \/ BuyOrderOk
    \/ Settle
    \/ FiltersError
    \/ FiltersOk
    \/ LimitSellOk
    \/ LimitSellRetry
    \/ LimitSellGiveUp

SpecEntry == InitEntry /\ [][NextOneEntry]_vars

----------------------------------------------------------------------------
(* The bot with every call of a started cycle returning: the one goroutine  *)
(* of startBot runs the loop body and executeBuy statement by statement, so *)
(* a step of the cycle that can be taken is taken. The ticker may stay      *)
(* silent: no cycle has to start. The bot starts with the smallest budget  *)
(* StartTradingBot accepts, which pays for one position.                    *)

InitMinBalance == Init /\ TotalBudget = MinBalance

SpecLive == InitMinBalance /\ [][Next]_vars /\ WF_vars(NextOneEntry)

----------------------------------------------------------------------------
(* The bot on listings of up to MaxListed ranked assets, more than the 20   *)
(* fetchTop20CoinsFromCMC takes. The first ranks are RankedSymbols, with    *)
(* the stablecoin among them; only the stablecoin has moved, the others     *)
(* stand at 0.0%.                                                           *)

Listing(n, x) ==
    [k \in 1..n |->
        [Symbol |-> IF k <= Len(RankedSymbols) THEN RankedSymbols[k] ELSE "ALT",
         Price |-> IF k <= Len(RankedPrice) THEN RankedPrice[k] ELSE k,
         PercentChange24h |->
            IF k <= Len(RankedSymbols) /\ RankedSymbols[k] = "USDT" THEN x ELSE 0]]

\* runTradingCycle, the snapshot of a listing replaces bot.WatchList
FetchListed ==
    /\ pc = "idle"
    /\ cycles < MaxCycles
    /\ cycles' = cycles + 1
    /\ \E n \in 0..MaxListed : \E x \in PctValues :
        WatchList' = FetchTop20(Listing(n, x))
    /\ cycleErr' = FALSE
    /\ pc' = "analyze"
    /\ idx' = 1
    /\ UNCHANGED <<TotalBudget, AvailableBudget, InvestmentAmount, Positions,
                   NextPositionID, localVars, signals, log, entry, exch, ghostVars>>

NextFetch ==
    \/ FetchListed
    \/ NextOneEntry

SpecFetch == InitMinBalance /\ [][NextFetch]_vars

----------------------------------------------------------------------------
(* roundToTickSize on its own: applied to a price from 0 to MaxPrice and a  *)
(* tick size string, and then once more to its own result.                  *)

NormTicks == {Num(1), Num(7), Num(20), Num(0), EmptyStr, BadStr}

InitNormalizer ==
    /\ TotalBudget = MinBalance
    /\ AvailableBudget = TotalBudget
    /\ InvestmentAmount = InvestmentUnit
    /\ Positions = <<>>
    /\ WatchList = <<>>
    /\ NextPositionID = 1
    /\ pc = "idle"
    /\ idx = 0
    /\ cycles = 0
    /\ position = NoPosition
    /\ roundedSellPrice = 0
    /\ retry = 0
    /\ sellErr = FALSE
    /\ signals = {}
    /\ log = <<>>
    /\ entry = NoEntry
    /\ exch = [buys |-> 0, lost |-> 0]
    /\ cycleErr = FALSE
    /\ fetchFailed = NoFailure
    /\ calls = <<>>
    /\ \E p \in 0..MaxPrice : \E t \in NormTicks :
            norm = [NoNorm EXCEPT !.price = p, !.tickSize = t]

stateVars ==
    <<botVars, pc, idx, cycles, localVars, signals, log, entry, exch, cycleErr,
      fetchFailed, calls>>

\* roundToTickSize(price, tickSize)
NormalizeOnce ==
    /\ norm.applied = 0
    /\ norm' = [norm EXCEPT !.applied = 1,
                            !.once = roundToTickSize(norm.price, norm.tickSize)]
    /\ UNCHANGED stateVars

\* roundToTickSize of the result, with the same tickSize
NormalizeAgain ==
    /\ norm.applied = 1
    /\ norm' = [norm EXCEPT !.applied = 2,
                            !.twice = roundToTickSize(norm.once, norm.tickSize)]
    /\ UNCHANGED stateVars

NextNormalizer ==
    \/ NormalizeOnce
    \/ NormalizeAgain

SpecNormalizer == InitNormalizer /\ [][NextNormalizer]_vars

----------------------------------------------------------------------------
(* Vocabulary of the properties *)

IsGatewayCall(e) == e.call \in {"marketBuy", "getSymbolFilters", "limitSell"}
GatewayCalls == SelectSeq(log, IsGatewayCall)
IsLimitSell(e) == e.call = "limitSell"
LimitSells == SelectSeq(log, IsLimitSell)
IsLookup(e) == e.call = "getSymbolFilters"
Lookups == SelectSeq(log, IsLookup)

\* the loop body has finished with the latest entry
Returned == entry.idx > 0 /\ pc = "analyze" /\ idx = entry.idx + 1

\* the percent change of the latest entry
Pct == WatchList[entry.idx].PriceChangePercent

\* the latest entry has left the books as they were
BooksUnchanged ==
    /\ Positions = entry.Positions
    /\ AvailableBudget = entry.AvailableBudget
    /\ NextPositionID = entry.NextPositionID

\* the latest entry has booked exactly one position
Booked ==
    /\ Len(Positions) = Len(entry.Positions) + 1
    /\ SubSeq(Positions, 1, Len(entry.Positions)) = entry.Positions
    /\ AvailableBudget = entry.AvailableBudget - InvestmentAmount
    /\ NextPositionID = entry.NextPositionID + 1

LastPosition == Positions[Len(Positions)]

IsMarketBuy(e) == e.call = "marketBuy"
MarketBuys == SelectSeq(log, IsMarketBuy)

\* a limit sell that the exchange took as an order, heard of by the bot or not
IsSellPlaced(e) == e.call = "limitSell" /\ e.executed
SellsPlaced == SelectSeq(log, IsSellPlaced)

\* executeBuy has passed the budget guard and submitted the market buy
PassedGuard ==
    entry.invoked /\ entry.AvailableBudget >= InvestmentAmount /\ pc # "executeBuy"

BuyFailed == log # <<>> /\ log[1].call = "marketBuy" /\ log[1].err

----------------------------------------------------------------------------
(* C1.  Whatever buys and cycles have run, with whatever gateway successes *)
(* and failures, the available budget is the total budget less one         *)
(* investment unit per position appended, and it is never negative.        *)
BudgetInvariant ==
    /\ AvailableBudget = TotalBudget - InvestmentAmount * Len(Positions)
    /\ AvailableBudget >= 0

\* two accepted buys, one of them degraded, and a lost response on the way
BudgetWitness ==
    /\ Len(Positions) = 2
    /\ exch.lost > 0
    /\ ~Positions[1].HasActiveSellOrder
    /\ AvailableBudget = TotalBudget - 14

(* C2.  executeBuy entered with less than one investment unit available    *)
(* makes no gateway call and leaves positions, budget and id counter as     *)
(* they were; entered with at least one unit, equality included, it         *)
(* submits the market buy.                                                  *)
GuardHolds ==
    entry.invoked =>
        /\ entry.AvailableBudget < InvestmentAmount =>
                /\ GatewayCalls = <<>>
                /\ BooksUnchanged
                /\ pc \in {"executeBuy", "analyze"}
        /\ entry.AvailableBudget >= InvestmentAmount /\ pc # "executeBuy" =>
                /\ log # <<>>
                /\ log[1].call = "marketBuy"

\* a buy-zone entry met an exhausted budget and the loop has moved on
GuardWitness ==
    /\ Returned
    /\ entry.invoked
    /\ entry.AvailableBudget < InvestmentAmount
    /\ entry.AvailableBudget > 0

(* C3.  When the market buy returns an error, executeBuy ends there: the    *)
(* books are as before, no rule lookup and no limit sell is made, and the   *)
(* loop goes on to the entry after it.                                      *)
BuyErrorAborts ==
    BuyFailed =>
        /\ Len(log) = 1
        /\ BooksUnchanged
        /\ position = NoPosition
        /\ Returned

\* a failed buy with a further entry of the snapshot still to come
BuyErrorWitness ==
    /\ BuyFailed
    /\ Returned
    /\ idx <= Len(WatchList)

(* C4.  Position ids strictly increase along Positions, the id counter is   *)
(* above all of them, and an attempt that was guarded out or whose buy      *)
(* failed leaves the id counter alone.                                      *)
IdsIncrease ==
    /\ \A i \in 1..Len(Positions) : \A j \in 1..Len(Positions) :
            i < j => Positions[i].ID < Positions[j].ID
    /\ \A i \in 1..Len(Positions) : Positions[i].ID < NextPositionID
    /\ (Returned /\ entry.invoked /\ (log = <<>> \/ BuyFailed)) =>
            NextPositionID = entry.NextPositionID

\* two positions booked, then a third attempt guarded out
IdsWitness ==
    /\ Len(Positions) = 2
    /\ Returned
    /\ entry.invoked
    /\ log = <<>>

(* C5.  The classifier reports the zone of a percent change x by these      *)
(* intervals: x <= -11.0 SKIP; -11.0 < x <= -10.0 RISKY; -10.0 < x <= -5.0  *)
(* BUY; -5.0 < x <= -4.5 WATCH; x > -4.5 HOLD.  SKIP goes before all else:  *)
(* nothing is reported with it.  (The one line that can come on top of the  *)
(* interval's zone is HOLD.)                                                *)
ZoneByIntervals(x) ==
    IF x <= -110 THEN "SKIP"
    ELSE IF x <= -100 THEN "RISKY"
    ELSE IF x <= -50 THEN "BUY"
    ELSE IF x <= -45 THEN "WATCH"
    ELSE "HOLD"

ClassifierZones ==
    entry.idx > 0 =>
        /\ ZoneByIntervals(Pct) \in signals
        /\ signals \ {ZoneByIntervals(Pct)} \subseteq {"HOLD"}
        /\ Pct <= -110 => signals = {"SKIP"}

\* an entry one tenth of a percent inside the risky zone, next to the buy zone
ClassifierWitness ==
    /\ entry.idx > 0
    /\ Pct = -100
    /\ signals = {"RISKY"}

(* C6, as claimed.  An entry at exactly -5.0 and an entry at exactly -10.0  *)
(* are both classified BUY, and executeBuy is invoked for each.             *)
TieBreakBothBuy ==
    (entry.idx > 0 /\ Pct \in {-50, -100}) =>
        /\ "BUY" \in signals
        /\ entry.invoked

(* C6, amended.  An entry at exactly -5.0 is classified BUY and executeBuy  *)
(* is invoked for it; an entry at exactly -10.0 is classified RISKY and     *)
(* executeBuy is not invoked for it.                                        *)
TieBreak ==
    entry.idx > 0 =>
        /\ Pct = -50 => (signals = {"BUY"} /\ entry.invoked)
        /\ Pct = -100 => (signals = {"RISKY"} /\ ~entry.invoked /\ GatewayCalls = <<>>)

\* an entry at exactly -10.0 has been through the loop body
TieBreakWitness ==
    /\ Returned
    /\ Pct = -100
    /\ ~entry.invoked

(* C7.  An entry classified SKIP, RISKY, WATCH or HOLD causes no trading:   *)
(* executeBuy is not invoked for it, no gateway call is made for it, and    *)
(* positions, budget and id counter are as before it.                       *)
OnlyBuyZoneTrades ==
    (entry.idx > 0 /\ signals \cap {"SKIP", "RISKY", "WATCH", "HOLD"} # {}) =>
        /\ ~entry.invoked
        /\ GatewayCalls = <<>>
        /\ BooksUnchanged
        /\ Returned \/ pc = "idle"

\* a watch-zone entry passed over by a bot that could have bought
OnlyBuyZoneWitness ==
    /\ Returned
    /\ "WATCH" \in signals
    /\ AvailableBudget >= InvestmentAmount

(* C8.  The limit sell is tried at most 3 times and never again after a     *)
(* success.  Once executeBuy has returned after a rule lookup that          *)
(* succeeded: if the last try succeeded, every try before it failed and     *)
(* its order is the position's; if no try succeeded, there were exactly 3   *)
(* and the error stands.                                                    *)
RetryBound ==
    /\ Len(LimitSells) <= 3
    /\ \A k \in 1..Len(LimitSells) : ~LimitSells[k].err => k = Len(LimitSells)
    /\ (Returned /\ Lookups # <<>> /\ ~Lookups[1].err) =>
            /\ LimitSells # <<>>
            /\ LimitSells[Len(LimitSells)].err =>
                    /\ Len(LimitSells) = 3
                    /\ sellErr
                    /\ ~LastPosition.HasActiveSellOrder
            /\ ~LimitSells[Len(LimitSells)].err =>
                    /\ ~sellErr
                    /\ retry = Len(LimitSells)
                    /\ LastPosition.HasActiveSellOrder
                    /\ LastPosition.SellOrderID = LimitSells[Len(LimitSells)].orderId

\* two failures, then a success on the third try
RetryWitness ==
    /\ Returned
    /\ Len(LimitSells) = 3
    /\ LimitSells[1].err
    /\ LimitSells[2].err
    /\ ~LimitSells[3].err

(* C9.  When every limit-sell try has failed the buy still stands: the      *)
(* position is appended without a sell order (flag false, order id 0) at    *)
(* the un-normalized target of average fill price x 1.05, the budget is     *)
(* one investment unit lower and the id counter one higher.                 *)
ExhaustedRetriesKeepBuy ==
    (Returned /\ LimitSells # <<>> /\ \A k \in 1..Len(LimitSells) : LimitSells[k].err) =>
        /\ Booked
        /\ LastPosition.ID = entry.NextPositionID
        /\ ~LastPosition.HasActiveSellOrder
        /\ LastPosition.SellOrderID = 0
        /\ LastPosition.TargetSellPrice = (LastPosition.BuyPrice * 105) \div 100

\* all three tries failed where rounding to the tick would have moved the price
ExhaustedRetriesWitness ==
    /\ Returned
    /\ Len(LimitSells) = 3
    /\ \A k \in 1..3 : LimitSells[k].err
    /\ roundedSellPrice # LastPosition.TargetSellPrice

(* C10.  When the rule lookup fails after a successful market buy, no       *)
(* limit sell is submitted at all, the position is appended without an      *)
(* active sell order, and the budget is one investment unit lower.          *)
LookupFailureSkipsSell ==
    (Lookups # <<>> /\ Lookups[1].err) =>
        /\ LimitSells = <<>>
        /\ Returned
        /\ Booked
        /\ ~LastPosition.HasActiveSellOrder
        /\ LastPosition.SellOrderID = 0

\* a position booked after a failed rule lookup
LookupFailureWitness ==
    /\ Returned
    /\ Lookups # <<>>
    /\ Lookups[1].err
    /\ Len(Positions) = Len(entry.Positions) + 1

(* C11.  A failed snapshot fetch ends that cycle and nothing else.  While   *)
(* the failed runTradingCycle is the latest one, the bot is back between    *)
(* cycles with WatchList, Positions, budget, id counter and the exchange's  *)
(* buys as they were when the fetch failed, and no entry was classified and *)
(* no gateway call made.  The runTradingCycle after it starts from those    *)
(* same books, with a new snapshot, at the first entry.                     *)
FetchFailureAbortsCycle ==
    /\ cycleErr =>
        /\ pc = "idle"
        /\ fetchFailed.cycle = cycles
        /\ WatchList = fetchFailed.WatchList
        /\ Positions = fetchFailed.Positions
        /\ AvailableBudget = fetchFailed.AvailableBudget
        /\ NextPositionID = fetchFailed.NextPositionID
        /\ exch.buys = fetchFailed.buys
        /\ signals = {}
        /\ log = <<>>
        /\ entry = NoEntry
        /\ calls = <<>>
    /\ (fetchFailed.cycle > 0 /\ ~cycleErr) =>
        /\ cycles = fetchFailed.cycle + 1
        /\ pc = "analyze"
        /\ idx = 1
        /\ Positions = fetchFailed.Positions
        /\ AvailableBudget = fetchFailed.AvailableBudget
        /\ NextPositionID = fetchFailed.NextPositionID
        /\ exch.buys = fetchFailed.buys

\* a fetch failed, and the runTradingCycle after it has its snapshot and is
\* about to classify a buy-zone entry with budget at hand
FetchFailureWitness ==
    /\ fetchFailed.cycle > 0
    /\ ~cycleErr
    /\ WatchList # <<>>
    /\ BuyCondition(WatchList[1].PriceChangePercent)
    /\ AvailableBudget >= InvestmentAmount

(* C12.  The append of the position, the decrement of the budget and the    *)
(* advance of the id counter come as one group: always, and so whenever     *)
(* the bot is between executeBuy calls, len(Positions) = NextPositionID - 1 *)
(* = (TotalBudget - AvailableBudget) / InvestmentAmount, and an entry       *)
(* leaves either none or all three of the changes behind.                   *)
AtomicGroup ==
    /\ Len(Positions) = NextPositionID - 1
    /\ (TotalBudget - AvailableBudget) % InvestmentAmount = 0
    /\ Len(Positions) = (TotalBudget - AvailableBudget) \div InvestmentAmount
    /\ entry.idx > 0 => (BooksUnchanged \/ Booked)

\* the second position has been booked, with its sell order
AtomicGroupWitness ==
    /\ Returned
    /\ Booked
    /\ Len(Positions) = 2
    /\ LastPosition.HasActiveSellOrder

(* C13.  An executeBuy that passes the guard submits exactly one market     *)
(* buy, and for an accepted buy at most one limit sell order is placed on   *)
(* the exchange over all the tries, with exactly one position appended and  *)
(* one budget decrement.                                                    *)
OneBuyOneSell ==
    PassedGuard =>
        /\ Len(MarketBuys) = 1
        /\ Len(SellsPlaced) <= 1
        /\ (Returned /\ ~BuyFailed) => Booked

NormalizerNoOp ==
    /\ \A t \in {EmptyStr, Num(0), BadStr} :
            roundToTickSize(position.TargetSellPrice, t) = position.TargetSellPrice
    /\ (Lookups # <<>> /\ ~Lookups[1].err /\ ~Lookups[1].tickOk) =>
            /\ roundedSellPrice = TargetPrice(position.BuyPrice)
            /\ pc = "sell" \/ LimitSells # <<>>
            /\ Returned =>
                    LastPosition.TargetSellPrice = TargetPrice(LastPosition.BuyPrice)

\* a sell order accepted at a price that is no multiple of the usable tick,
\* after rules without a usable tick size
NormalizerNoOpWitness ==
    /\ Returned
    /\ Lookups # <<>>
    /\ ~Lookups[1].err
    /\ ~Lookups[1].tickOk
    /\ LastPosition.HasActiveSellOrder
    /\ roundToTickSize(LastPosition.TargetSellPrice, Num(20)) # LastPosition.TargetSellPrice

(* C16.  Execution is sequential.  A cycle is either not running or at one  *)
(* entry of its snapshot; while an executeBuy is between the budget guard   *)
(* and its budget decrement it is the only one: the books are those it      *)
(* found, the id it took is still the next id, and the unit it spends is    *)
(* still available.  So the positions booked and the buy in progress never  *)
(* need more than the total budget, and two buys never share the last unit. *)
InFlight == pc \in {"settle", "filters", "sell"}

Sequential ==
    /\ pc = "idle" <=> idx = 0
    /\ pc # "idle" => (idx >= 1 /\ idx <= Len(WatchList) + 1 /\ ~cycleErr)
    /\ pc \in {"executeBuy", "settle", "filters", "sell"} =>
            /\ entry.idx = idx
            /\ entry.invoked
            /\ calls # <<>>
            /\ calls[Len(calls)] = idx
            /\ BooksUnchanged
    /\ InFlight =>
            /\ position.ID = NextPositionID
            /\ AvailableBudget >= InvestmentAmount
            /\ (Len(Positions) + 1) * InvestmentAmount <= TotalBudget
    /\ \A i \in 1..Len(calls) : \A j \in 1..Len(calls) : i < j => calls[i] < calls[j]

\* a buy in progress holds the last unit while a further buy-zone entry waits
SequentialWitness ==
    /\ pc = "sell"
    /\ AvailableBudget = InvestmentAmount
    /\ idx < Len(WatchList)
    /\ BuyCondition(WatchList[idx + 1].PriceChangePercent)

(* C17, as claimed.  Every entry is reported with exactly one zone: an      *)
(* entry with -5.0 < x <= -4.5 as WATCH and not also as HOLD, and HOLD only *)
(* for x > -4.5.                                                            *)
OneZoneEach ==
    entry.idx > 0 =>
        /\ Cardinality(signals) = 1
        /\ (Pct > -50 /\ Pct <= -45) => signals = {"WATCH"}
        /\ "HOLD" \in signals => Pct > -45

(* C17, amended.  Every entry outside -5.0 < x <= -4.5 is reported with     *)
(* exactly one zone; an entry with -5.0 < x <= -4.5 is reported as WATCH    *)
(* and as HOLD as well, and HOLD is reported for exactly the x > -5.0.      *)
ZonesReported ==
    entry.idx > 0 =>
        /\ (Pct > -50 /\ Pct <= -45) => signals = {"WATCH", "HOLD"}
        /\ ~(Pct > -50 /\ Pct <= -45) => Cardinality(signals) = 1
        /\ "HOLD" \in signals <=> Pct > -50

\* an entry inside the watch range has been reported
ZonesReportedWitness ==
    /\ Returned
    /\ Pct = -47
    /\ signals = {"WATCH", "HOLD"}

(* C18.  For every position in Positions, HasActiveSellOrder is true if     *)
(* and only if a limit-sell try for it returned without error; then         *)
(* SellOrderID is the order id that try returned and TargetSellPrice is     *)
(* the tick-normalized price that was submitted; otherwise SellOrderID is   *)
(* 0 and TargetSellPrice is BuyPrice x 1.05.  A position is as it was       *)
(* booked: later entries do not change it.                                  *)
SellAccepted == LimitSells # <<>> /\ ~LimitSells[Len(LimitSells)].err

SellOrderRecorded ==
    /\ \A i \in 1..Len(Positions) :
            /\ ~Positions[i].HasActiveSellOrder =>
                    /\ Positions[i].SellOrderID = 0
                    /\ Positions[i].TargetSellPrice = (Positions[i].BuyPrice * 105) \div 100
            /\ Positions[i].HasActiveSellOrder =>
                    \E t \in TickSizes :
                        Positions[i].TargetSellPrice =
                            roundToTickSize((Positions[i].BuyPrice * 105) \div 100, t)
    /\ entry.idx > 0 =>
            SubSeq(Positions, 1, Len(entry.Positions)) = entry.Positions
    /\ (Returned /\ Booked) =>
            /\ LastPosition.HasActiveSellOrder <=> SellAccepted
            /\ LastPosition.HasActiveSellOrder <=> (\E k \in 1..Len(LimitSells) : ~LimitSells[k].err)
            /\ SellAccepted =>
                    /\ LastPosition.SellOrderID = LimitSells[Len(LimitSells)].orderId
                    /\ LastPosition.TargetSellPrice = roundedSellPrice
            /\ ~SellAccepted =>
                    /\ LastPosition.SellOrderID = 0
                    /\ LastPosition.TargetSellPrice = (LastPosition.BuyPrice * 105) \div 100

\* a sell order accepted on the second try at a price the tick has moved
SellOrderRecordedWitness ==
    /\ Returned
    /\ Booked
    /\ Len(LimitSells) = 2
    /\ LastPosition.HasActiveSellOrder
    /\ LastPosition.TargetSellPrice # (LastPosition.BuyPrice * 105) \div 100

(* C19.  Within one executeBuy the external steps come in a fixed order:    *)
(* the market buy, which must succeed, then the settlement delay, then the  *)
(* rule lookup, and only after a successful lookup the limit sells, with a  *)
(* wait after each failed try but the last.  No rule lookup and no limit    *)
(* sell comes before the buy has succeeded and the delay has passed.        *)
StepOrder ==
    \A k \in 1..Len(log) :
        /\ log[k].call = "marketBuy" => k = 1
        /\ log[k].call = "settle" =>
                k = 2 /\ log[1].call = "marketBuy" /\ ~log[1].err
        /\ log[k].call = "getSymbolFilters" =>
                k = 3 /\ log[2].call = "settle" /\ log[1].call = "marketBuy" /\ ~log[1].err
        /\ log[k].call = "limitSell" =>
                /\ k >= 4
                /\ log[3].call = "getSymbolFilters" /\ ~log[3].err
                /\ log[2].call = "settle"
                /\ log[1].call = "marketBuy" /\ ~log[1].err
                /\ k > 4 => log[k - 1].call = "wait"
        /\ log[k].call = "wait" =>
                k >= 5 /\ log[k - 1].call = "limitSell" /\ log[k - 1].err

\* buy, delay, lookup and a first limit sell that is accepted
StepOrderWitness ==
    /\ Returned
    /\ Len(log) = 4
    /\ log[4].call = "limitSell"
    /\ ~log[4].err

(* C20.  Within a cycle executeBuy is invoked exactly once for every        *)
(* buy-zone entry of the snapshot, in snapshot order and without a cap:     *)
(* the calls made so far are the buy-zone entries among those the loop has  *)
(* reached, whatever became of the earlier ones.  A call submits no market  *)
(* buy only when the budget guard stops it.                                 *)
IsBuyZoneIndex(i) == ZoneByIntervals(WatchList[i].PriceChangePercent) = "BUY"

Reached ==
    IF pc = "idle" THEN 0 ELSE IF pc = "analyze" THEN idx - 1 ELSE idx

EveryBuyZoneEntryOnce ==
    /\ calls = SelectSeq([i \in 1..Reached |-> i], IsBuyZoneIndex)
    /\ (entry.invoked /\ pc # "executeBuy") =>
            (MarketBuys = <<>> <=> entry.AvailableBudget < InvestmentAmount)

\* the second buy-zone entry of a snapshot is bought after the first was
\* booked without a sell order
EveryBuyZoneEntryWitness ==
    /\ cycles = 1
    /\ calls = <<1, 2>>
    /\ Len(Positions) = 1
    /\ ~Positions[1].HasActiveSellOrder
    /\ MarketBuys # <<>>
    /\ ~MarketBuys[1].err

(* C21.  For a positive price p and a positive tick size t,                 *)
(* roundToTickSize(p, t) is the multiple of t nearest to p, a price exactly *)
(* half-way between two multiples going to the higher one; the result is    *)
(* at most t/2 away from p.                                                 *)
Distance(a, b) == IF a >= b THEN a - b ELSE b - a

NearestMultiple ==
    (norm.applied >= 1 /\ PositiveTick(norm.tickSize) /\ norm.price > 0) =>
        LET p == norm.price
            t == norm.tickSize.val
            r == norm.once
        IN  /\ r % t = 0
            /\ 2 * Distance(r, p) <= t
            /\ \A k \in 0..(MaxPrice + 1) : Distance(r, p) <= Distance(k * t, p)
            /\ 2 * Distance(r, p) = t => r > p

\* a price half-way between two multiples of the tick has gone up
NearestMultipleWitness ==
    /\ norm.applied = 1
    /\ norm.tickSize = Num(20)
    /\ norm.price = 50
    /\ norm.once = 60

(* C22.  The BuyPrice recorded is the volume-weighted average of the fills  *)
(* (sum of price x qty over sum of qty) when the buy response has fills,    *)
(* and the entry's last price when it has none; the TargetSellPrice the     *)
(* position starts with is that BuyPrice x 1.05, and InvestedAmount is the  *)
(* investment unit.                                                         *)
RECURSIVE SumOfValue(_, _)
SumOfValue(fills, n) ==
    IF n = 0 THEN 0
    ELSE fills[n].Price.val * fills[n].Qty.val + SumOfValue(fills, n - 1)

RECURSIVE SumOfQty(_, _)
SumOfQty(fills, n) ==
    IF n = 0 THEN 0 ELSE fills[n].Qty.val + SumOfQty(fills, n - 1)

BuyAccepted == log # <<>> /\ log[1].call = "marketBuy" /\ ~log[1].err

BuyPriceFromFills ==
    BuyAccepted =>
        LET fills == log[1].resp.Fills
        IN  /\ fills # <<>> =>
                position.BuyPrice * SumOfQty(fills, Len(fills))
                    = SumOfValue(fills, Len(fills))
            /\ fills = <<>> => position.BuyPrice = WatchList[entry.idx].LastPrice
            /\ position.InvestedAmount = InvestmentAmount
            /\ ~position.HasActiveSellOrder =>
                    position.TargetSellPrice * 100 = position.BuyPrice * 105
            /\ Returned =>
                    /\ LastPosition.BuyPrice = position.BuyPrice
                    /\ LastPosition.InvestedAmount = InvestmentAmount

\* a position booked from a response with two fills at different prices
BuyPriceFromFillsWitness ==
    /\ Returned
    /\ BuyAccepted
    /\ Len(log[1].resp.Fills) = 2
    /\ log[1].resp.Fills[1].Price # log[1].resp.Fills[2].Price
    /\ LastPosition.BuyPrice = 1020

(* C23.  When the executed quantity of the market-buy response is not a    *)
(* number, executeBuy ends with an error: it appends no position whose      *)
(* Quantity comes from that value.                                          *)
ParseErrorPropagated ==
    (BuyAccepted /\ log[1].resp.ExecutedQty.kind # "num") =>
        Positions = entry.Positions

(* C24.  Every market buy the exchange has executed is accounted for:      *)
(* between executeBuy calls the tracked spend, TotalBudget less             *)
(* AvailableBudget, is InvestmentAmount x the number of market buys         *)
(* executed, and there is a position for each, also when the response to    *)
(* an executed buy could not be read or parsed.                             *)
BuysAccounted ==
    pc \in {"idle", "analyze"} =>
        /\ TotalBudget - AvailableBudget = InvestmentAmount * exch.buys
        /\ Len(Positions) = exch.buys

(* C25.  With every data-source and gateway call returning, every           *)
(* runTradingCycle that has started comes to its end; an executeBuy makes   *)
(* at most one market buy, one rule lookup and three limit-sell             *)
(* submissions, and a cycle calls executeBuy at most once for an entry of   *)
(* the snapshot: the entries it is called for strictly increase.            *)
CallsIncrease ==
    \A i \in 1..Len(calls) :
        /\ calls[i] \in 1..Len(WatchList)
        /\ i > 1 => calls[i - 1] < calls[i]

CycleTerminates ==
    /\ [](/\ Len(MarketBuys) <= 1
          /\ Len(Lookups) <= 1
          /\ Len(LimitSells) <= maxRetries
          /\ CallsIncrease)
    /\ (pc # "idle") ~> (pc = "idle")

CycleTerminatesWitness ==
    /\ pc = "analyze"
    /\ idx > Len(WatchList)
    /\ Len(calls) = MaxCoins
    /\ Len(MarketBuys) = 1
    /\ Len(Lookups) = 1
    /\ Len(LimitSells) = maxRetries

(* C26.  No step undoes accounting: AvailableBudget never increases,        *)
(* TotalBudget and InvestmentAmount never change, the positions already in  *)
(* Positions stay where and as they are, and while AvailableBudget is below *)
(* InvestmentAmount no market buy is submitted. As the budget never grows   *)
(* back, that holds for every later cycle too.                              *)
NoUndo ==
    [][/\ AvailableBudget' <= AvailableBudget
       /\ TotalBudget' = TotalBudget
       /\ InvestmentAmount' = InvestmentAmount
       /\ Len(Positions') >= Len(Positions)
       /\ SubSeq(Positions', 1, Len(Positions)) = Positions
       /\ AvailableBudget < InvestmentAmount =>
            Len(MarketBuys') <= Len(MarketBuys)]_vars

NoUndoWitness ==
    /\ cycles > 1
    /\ Returned
    /\ entry.invoked
    /\ entry.AvailableBudget < InvestmentAmount
    /\ MarketBuys = <<>>
    /\ Len(Positions) > 1
    /\ AvailableBudget < TotalBudget

(* C27.  The watch list a successful cycle installs has at most 20 entries, *)
(* in the rank order of the data source, and no stablecoin: a stablecoin    *)
(* among the ranked assets is never in WatchList, never classified and      *)
(* never bought.                                                            *)
StableTickers == {"USDTUSDT"}

\* the rank of a ticker in the listing, which its price identifies
RankOf(t) == CHOOSE k \in 1..MaxListed : Listing(MaxListed, 0)[k].Price = t.LastPrice

CappedInRankOrder ==
    /\ Len(WatchList) <= Top20Limit
    /\ \A i, j \in 1..Len(WatchList) :
        i < j => RankOf(WatchList[i]) < RankOf(WatchList[j])

NoStablecoin ==
    /\ CappedInRankOrder
    /\ \A i \in 1..Len(WatchList) : WatchList[i].Symbol \notin StableTickers
    /\ entry.idx > 0 => WatchList[entry.idx].Symbol \notin StableTickers
    /\ \A i \in 1..Len(Positions) : Positions[i].Symbol \notin StableTickers

====
